---- MODULE Spec2Model ----
(***************************************************************************)
(* Model of tools/efrotools/util.py: command line flag/argument extraction *)
(* from a mutable list (extract_flag, extract_arg), marker delimited       *)
(* section replacement (replace_section) and exact-count replacement       *)
(* (replace_exact).                                                        *)
(*                                                                         *)
(* Argument lists are sequences of opaque tokens (only ever compared for   *)
(* equality by the code).  Text is a sequence of characters, so that the   *)
(* substring searches of str.split / str.count / str.replace are computed *)
(* the way Python computes them (left to right, non overlapping).          *)
(* Python indices are 0-based; TLA+ sequences are 1-based.  Operators that *)
(* carry a Python index say so.                                            *)
(***************************************************************************)
EXTENDS Integers, Sequences, FiniteSets, TLC

\* ------------------------------------------------------------------ bounds
MaxArgs == 4
MaxText == 4
MaxMarker == 2
MaxRepl == 1
MaxOpstr == 3
MaxOld == 2
MaxNew == 1
MaxCount == 3

\* Tokens that may appear in an argument list, and characters of text.
Tokens == {"-f", "-o", "v"}
Alphabet == {"a", "b", "c"}

SeqsUpTo(S, n) == UNION {[1..k -> S] : k \in 0..n}

\* Python values of the extraction results.
PyTrue == "True"
PyFalse == "False"
PyNone == "None"
NoResult == "-"

\* ------------------------------------------------------ list primitives
\* list.count(x)
ListCount(l, x) == Cardinality({i \in DOMAIN l : l[i] = x})

\* list.index(x): 0-based index of the first occurrence (x must occur).
ListIndex(l, x) ==
    (CHOOSE i \in DOMAIN l : l[i] = x /\ \A j \in 1..(i - 1) : l[j] # x) - 1

\* del l[lo:hi] with 0-based lo <= hi; the slice end is clamped to len(l).
DelSlice(l, lo, hi) ==
    LET h == IF hi > Len(l) THEN Len(l) ELSE hi
    IN  SubSeq(l, 1, lo) \o SubSeq(l, h + 1, Len(l))

\* A plausible slip: removes the first element instead of the first match.
ListRemoveHead(l, x) == SubSeq(l, 2, Len(l))

\* list.remove(x): removes the first occurrence (x must occur).
ListRemove(l, x) ==
    LET i == ListIndex(l, x) IN DelSlice(l, i, i + 1)

\* ------------------------------------------------------------ extraction
Outcome(a, r, e) == [args |-> a, result |-> r, raised |-> e]

\* A plausible slip: reports the flag but forgets to remove it.
extract_flag_keep(a, n) ==
    LET cnt == ListCount(a, n)
    IN  IF cnt > 1 THEN Outcome(a, NoResult, "CleanError")
        ELSE IF cnt = 0 THEN Outcome(a, PyFalse, "")
        ELSE Outcome(a, PyTrue, "")

\* extract_flag(args, name)
extract_flag(a, n) ==
    LET cnt == ListCount(a, n)
    IN  IF cnt > 1 THEN Outcome(a, NoResult, "CleanError")
        ELSE IF cnt = 0 THEN Outcome(a, PyFalse, "")
        ELSE Outcome(ListRemove(a, n), PyTrue, "")

\* A plausible slip: deletes only the flag, leaving its value behind.
extract_arg_flagonly(a, n, req) ==
    LET cnt == ListCount(a, n)
    IN  IF cnt = 0
        THEN IF req THEN Outcome(a, NoResult, "CleanError")
             ELSE Outcome(a, PyNone, "")
        ELSE IF cnt > 1 THEN Outcome(a, NoResult, "CleanError")
        ELSE LET argindex == ListIndex(a, n)
             IN  IF argindex + 1 >= Len(a)
                 THEN Outcome(a, NoResult, "CleanError")
                 ELSE Outcome(DelSlice(a, argindex, argindex + 1),
                              a[argindex + 2], "")

\* A plausible slip: returns the element at argindex instead of argindex+1.
extract_arg_wrongval(a, n, req) ==
    LET cnt == ListCount(a, n)
    IN  IF cnt = 0
        THEN IF req THEN Outcome(a, NoResult, "CleanError")
             ELSE Outcome(a, PyNone, "")
        ELSE IF cnt > 1 THEN Outcome(a, NoResult, "CleanError")
        ELSE LET argindex == ListIndex(a, n)
             IN  IF argindex + 1 >= Len(a)
                 THEN Outcome(a, NoResult, "CleanError")
                 ELSE Outcome(DelSlice(a, argindex, argindex + 2),
                              a[argindex + 1], "")

\* A plausible slip: removes the flag before finding out it has no value.
extract_arg_eager(a, n, req) ==
    LET cnt == ListCount(a, n)
    IN  IF cnt = 0
        THEN IF req THEN Outcome(a, NoResult, "CleanError")
             ELSE Outcome(a, PyNone, "")
        ELSE IF cnt > 1 THEN Outcome(a, NoResult, "CleanError")
        ELSE LET argindex == ListIndex(a, n)
             IN  IF argindex + 1 >= Len(a)
                 THEN Outcome(DelSlice(a, argindex, argindex + 2),
                              NoResult, "CleanError")
                 ELSE Outcome(DelSlice(a, argindex, argindex + 2),
                              a[argindex + 2], "")

\* extract_arg(args, name, required)
extract_arg(a, n, req) ==
    LET cnt == ListCount(a, n)
    IN  IF cnt = 0
        THEN IF req THEN Outcome(a, NoResult, "CleanError")
             ELSE Outcome(a, PyNone, "")
        ELSE IF cnt > 1 THEN Outcome(a, NoResult, "CleanError")
        ELSE LET argindex == ListIndex(a, n)
             IN  IF argindex + 1 >= Len(a)
                 THEN Outcome(a, NoResult, "CleanError")
                 ELSE Outcome(DelSlice(a, argindex, argindex + 2),
                              a[argindex + 2], "")

\* ---------------------------------------------------- string primitives
\* sub occurs in s at the 0-based position i.
StartsAt(s, sub, i) ==
    /\ i >= 0
    /\ i + Len(sub) <= Len(s)
    /\ SubSeq(s, i + 1, i + Len(sub)) = sub

\* str.find(sub, start): lowest 0-based position >= start, or -1.
Find(s, sub, start) ==
    LET hits == {i \in start..Len(s) : StartsAt(s, sub, i)}
    IN  IF hits = {} THEN -1
        ELSE CHOOSE i \in hits : \A j \in hits : i <= j

\* `sub in s`
Contains(s, sub) == Find(s, sub, 0) # -1

RECURSIVE CountFrom(_, _, _)
CountFrom(s, sub, start) ==
    LET i == Find(s, sub, start)
    IN  IF i = -1 THEN 0 ELSE 1 + CountFrom(s, sub, i + Len(sub))

\* str.count(sub): non overlapping occurrences, scanned left to right;
\* the empty string is counted once between every two characters and at
\* both ends.
Count(s, sub) ==
    IF sub = <<>> THEN Len(s) + 1 ELSE CountFrom(s, sub, 0)

\* str.split(sep) raises ValueError("empty separator") for sep = ''.
SplitRaises(sep) == sep = <<>>

\* A plausible slip: cuts at the first separator only (split(sep, 1)).
SplitOnce(s, sep) ==
    LET i == Find(s, sep, 0)
    IN  IF i = -1 THEN <<s>>
        ELSE <<SubSeq(s, 1, i), SubSeq(s, i + Len(sep) + 1, Len(s))>>

\* str.split(sep) for a non-empty sep: the pieces between the non
\* overlapping occurrences of sep, scanned left to right.
RECURSIVE Split(_, _)
Split(s, sep) ==
    LET i == Find(s, sep, 0)
    IN  IF i = -1 THEN <<s>>
        ELSE <<SubSeq(s, 1, i)>>
             \o Split(SubSeq(s, i + Len(sep) + 1, Len(s)), sep)

\* A plausible slip: replaces the first occurrence only (replace(.., 1)).
RECURSIVE ReplaceFirst(_, _, _)
ReplaceFirst(s, old, new) ==
    IF old = <<>> THEN new \o s
    ELSE LET i == Find(s, old, 0)
         IN  IF i = -1 THEN s
             ELSE SubSeq(s, 1, i) \o new
                  \o SubSeq(s, i + Len(old) + 1, Len(s))

\* str.replace(old, new): every non overlapping occurrence, left to right;
\* an empty old inserts new before every character and at the end.
RECURSIVE Replace(_, _, _)
Replace(s, old, new) ==
    IF old = <<>>
    THEN IF s = <<>> THEN new
         ELSE new \o <<Head(s)>> \o Replace(Tail(s), old, new)
    ELSE LET i == Find(s, old, 0)
         IN  IF i = -1 THEN s
             ELSE SubSeq(s, 1, i) \o new
                  \o Replace(SubSeq(s, i + Len(old) + 1, Len(s)), old, new)

\* --------------------------------------------------------- replace_section
StrOutcome(r, e) == [ret |-> r, raised |-> e]
NoRet == <<"-">>

\* A plausible slip: keeps the text before the end marker instead of
\* the text after it.
replace_section_keepmiddle(t, bm, em, rt, keep, eim) ==
    IF ~Contains(t, bm)
    THEN IF eim THEN StrOutcome(NoRet, "RuntimeError")
         ELSE StrOutcome(t, "")
    ELSE IF SplitRaises(bm) THEN StrOutcome(NoRet, "ValueError")
    ELSE LET splits == Split(t, bm)
         IN  IF Len(splits) # 2 THEN StrOutcome(NoRet, "RuntimeError")
             ELSE LET before_begin == splits[1]
                      after_begin == splits[2]
                  IN  IF SplitRaises(em)
                      THEN StrOutcome(NoRet, "ValueError")
                      ELSE LET splits2 == Split(after_begin, em)
                           IN  IF Len(splits2) # 2
                               THEN StrOutcome(NoRet, "RuntimeError")
                               ELSE LET before_end == splits2[1]
                                        repl == IF keep THEN bm \o rt \o em
                                                ELSE rt
                                    IN  StrOutcome(before_begin \o repl
                                                   \o before_end, "")

\* A plausible slip: a missing begin marker is always an error.
replace_section_strict(t, bm, em, rt, keep, eim) ==
    IF ~Contains(t, bm)
    THEN StrOutcome(NoRet, "RuntimeError")
    ELSE IF SplitRaises(bm) THEN StrOutcome(NoRet, "ValueError")
    ELSE LET splits == Split(t, bm)
         IN  IF Len(splits) # 2 THEN StrOutcome(NoRet, "RuntimeError")
             ELSE LET before_begin == splits[1]
                      after_begin == splits[2]
                  IN  IF SplitRaises(em)
                      THEN StrOutcome(NoRet, "ValueError")
                      ELSE LET splits2 == Split(after_begin, em)
                           IN  IF Len(splits2) # 2
                               THEN StrOutcome(NoRet, "RuntimeError")
                               ELSE LET after_end == splits2[2]
                                        repl == IF keep THEN bm \o rt \o em
                                                ELSE rt
                                    IN  StrOutcome(before_begin \o repl
                                                   \o after_end, "")

\* replace_section(text, begin_marker, end_marker, replace_text,
\*                 keep_markers, error_if_missing)
replace_section(t, bm, em, rt, keep, eim) ==
    IF ~Contains(t, bm)
    THEN IF eim THEN StrOutcome(NoRet, "RuntimeError")
         ELSE StrOutcome(t, "")
    ELSE IF SplitRaises(bm) THEN StrOutcome(NoRet, "ValueError")
    ELSE LET splits == Split(t, bm)
         IN  IF Len(splits) # 2 THEN StrOutcome(NoRet, "RuntimeError")
             ELSE LET before_begin == splits[1]
                      after_begin == splits[2]
                  IN  IF SplitRaises(em)
                      THEN StrOutcome(NoRet, "ValueError")
                      ELSE LET splits2 == Split(after_begin, em)
                           IN  IF Len(splits2) # 2
                               THEN StrOutcome(NoRet, "RuntimeError")
                               ELSE LET after_end == splits2[2]
                                        repl == IF keep THEN bm \o rt \o em
                                                ELSE rt
                                    IN  StrOutcome(before_begin \o repl
                                                   \o after_end, "")

\* ----------------------------------------------------------- replace_exact
\* A plausible slip: the expected count is ignored (always 1).
replace_exact_default(s, o, n, c) ==
    LET found == Count(s, o)
    IN  IF found # 1 THEN StrOutcome(NoRet, "RuntimeError")
        ELSE StrOutcome(Replace(s, o, n), "")

\* replace_exact(opstr, old, new, count); label only changes the message.
replace_exact(s, o, n, c) ==
    LET found == Count(s, o)
    IN  IF found # c THEN StrOutcome(NoRet, "RuntimeError")
        ELSE StrOutcome(Replace(s, o, n), "")

\* ------------------------------------------------------------------ state
VARIABLES
    args,              \* the caller's argument list, mutated in place
    args0,             \* the list as it was when the last call was made
    call,              \* the function called last ("none" before any call)
    prev,              \* the call made before the last one: [call, name, raised]
    name,              \* extract_flag / extract_arg parameter
    required,          \* extract_arg parameter
    result,            \* value returned by the last extraction call
    raised,            \* exception raised by the last call ("" if none)
    text,              \* replace_section parameters
    begin_marker,
    end_marker,
    replace_text,
    keep_markers,
    error_if_missing,
    opstr,             \* replace_exact parameters
    old,
    new,
    count,
    ret                \* string returned by replace_section / replace_exact

extractVars == <<args, args0, call, prev, name, required, result, raised>>
sectionVars == <<text, begin_marker, end_marker, replace_text,
                 keep_markers, error_if_missing>>
exactVars == <<opstr, old, new, count>>
vars == <<extractVars, sectionVars, exactVars, ret>>

NoCall == [call |-> "none", name |-> NoResult, raised |-> ""]

ExtractIdle ==
    /\ args = <<>> /\ args0 = <<>> /\ prev = NoCall
    /\ name = NoResult /\ required = FALSE /\ result = NoResult
SectionIdle ==
    /\ text = <<>> /\ begin_marker = <<>> /\ end_marker = <<>>
    /\ replace_text = <<>> /\ keep_markers = FALSE
    /\ error_if_missing = TRUE
ExactIdle ==
    /\ opstr = <<>> /\ old = <<>> /\ new = <<>> /\ count = 1

\* ------------------------------------------------- extraction: the caller
\* holds one list and calls extract_flag / extract_arg on it any number of
\* times (a raised CleanError may be caught, the list is still there).
InitExtract ==
    /\ args \in SeqsUpTo(Tokens, MaxArgs)
    /\ args0 = args
    /\ call = "none" /\ prev = NoCall
    /\ name = NoResult /\ required = FALSE
    /\ result = NoResult /\ raised = ""
    /\ SectionIdle /\ ExactIdle /\ ret = NoRet

ExtractFlag(n) ==
    LET out == extract_flag(args, n)
    IN  /\ prev' = [call |-> call, name |-> name, raised |-> raised]
        /\ call' = "extract_flag"
        /\ name' = n
        /\ required' = FALSE
        /\ args0' = args
        /\ args' = out.args
        /\ result' = out.result
        /\ raised' = out.raised
        /\ UNCHANGED <<sectionVars, exactVars, ret>>

ExtractArg(n, req) ==
    LET out == extract_arg(args, n, req)
    IN  /\ prev' = [call |-> call, name |-> name, raised |-> raised]
        /\ call' = "extract_arg"
        /\ name' = n
        /\ required' = req
        /\ args0' = args
        /\ args' = out.args
        /\ result' = out.result
        /\ raised' = out.raised
        /\ UNCHANGED <<sectionVars, exactVars, ret>>

NextExtract ==
    \/ \E n \in Tokens : ExtractFlag(n)
    \/ \E n \in Tokens, req \in BOOLEAN : ExtractArg(n, req)

SpecExtract == InitExtract /\ [][NextExtract]_vars

\* ---------------------------------------------------------------- sections
InitSection ==
    /\ text \in SeqsUpTo(Alphabet, MaxText)
    /\ begin_marker \in SeqsUpTo(Alphabet, MaxMarker)
    /\ end_marker \in SeqsUpTo(Alphabet, MaxMarker)
    /\ replace_text \in SeqsUpTo(Alphabet, MaxRepl)
    /\ keep_markers \in BOOLEAN
    /\ error_if_missing \in BOOLEAN
    /\ call = "none" /\ raised = "" /\ ret = NoRet
    /\ ExtractIdle /\ ExactIdle

ReplaceSection ==
    LET out == replace_section(text, begin_marker, end_marker, replace_text,
                               keep_markers, error_if_missing)
    IN  /\ call = "none"
        /\ call' = "replace_section"
        /\ ret' = out.ret
        /\ raised' = out.raised
        /\ UNCHANGED <<args, args0, prev, name, required, result,
                       sectionVars, exactVars>>

NextSection == ReplaceSection

SpecSection == InitSection /\ [][NextSection]_vars

\* ------------------------------------------------------------------- exact
InitExact ==
    /\ opstr \in SeqsUpTo(Alphabet, MaxOpstr)
    /\ old \in SeqsUpTo(Alphabet, MaxOld)
    /\ new \in SeqsUpTo(Alphabet, MaxNew)
    /\ count \in 0..MaxCount
    /\ call = "none" /\ raised = "" /\ ret = NoRet
    /\ ExtractIdle /\ SectionIdle

ReplaceExact ==
    LET out == replace_exact(opstr, old, new, count)
    IN  /\ call = "none"
        /\ call' = "replace_exact"
        /\ ret' = out.ret
        /\ raised' = out.raised
        /\ UNCHANGED <<args, args0, prev, name, required, result,
                       sectionVars, exactVars>>

NextExact == ReplaceExact

SpecExact == InitExact /\ [][NextExact]_vars

\* ================================================================ properties
\* Vocabulary of the properties (independent of the operators above).
\* 1-based positions of x in the list l.
Occ(l, x) == {i \in DOMAIN l : l[i] = x}

\* l without its i-th element (1-based), the others in their order.
RemoveAt(l, i) ==
    [j \in 1..(Len(l) - 1) |-> IF j < i THEN l[j] ELSE l[j + 1]]

\* l with the two elements n, v inserted at position p in 0..Len(l).
InsertPair(l, p, n, v) ==
    SubSeq(l, 1, p) \o <<n, v>> \o SubSeq(l, p + 1, Len(l))

Extracted == call \in {"extract_flag", "extract_arg"}

\* C1: extract_flag on a list without name returns false and leaves the
\* list unchanged; on a list with exactly one name it returns true and the
\* list afterwards is the original with exactly that element removed.
C1_ExtractFlag ==
    call = "extract_flag" =>
       /\ Occ(args0, name) = {} =>
             raised = "" /\ result = PyFalse /\ args = args0
       /\ \A i \in DOMAIN args0 :
             Occ(args0, name) = {i} =>
                raised = "" /\ result = PyTrue /\ args = RemoveAt(args0, i)

C1_Witness ==
    /\ call = "extract_flag" /\ result = PyTrue
    /\ Len(args0) = 3 /\ Occ(args0, name) = {2}
    /\ args = <<args0[1], args0[3]>>

\* C2: when name occurs exactly once and is followed by an element,
\* extract_arg returns that element for either value of required and the
\* list loses exactly the flag and its value.
C2_ExtractArg ==
    call = "extract_arg" =>
       \A i \in DOMAIN args0 :
          (Occ(args0, name) = {i} /\ i < Len(args0)) =>
             /\ raised = ""
             /\ result = args0[i + 1]
             /\ args = RemoveAt(RemoveAt(args0, i), i)

C2_Witness ==
    /\ call = "extract_arg" /\ required /\ raised = ""
    /\ Len(args0) = 4 /\ Occ(args0, name) = {2}
    /\ result = args0[3] /\ args = <<args0[1], args0[4]>>

\* C3 as stated: for ANY list l, position p and strings name, value,
\* extracting name from l with [name, value] inserted at p returns value
\* and restores l.
C3_RoundTripAnyList ==
    call = "extract_arg" =>
       \A l \in SeqsUpTo(Tokens, MaxArgs - 2) :
          \A p \in 0..Len(l) : \A v \in Tokens :
             args0 = InsertPair(l, p, name, v) =>
                raised = "" /\ result = v /\ args = l

\* C3 amended: the round trip holds when l does not contain name and
\* value differs from name (otherwise name occurs more than once in the
\* list and extract_arg raises).
C3_RoundTrip ==
    call = "extract_arg" =>
       \A l \in SeqsUpTo(Tokens, MaxArgs - 2) :
          \A p \in 0..Len(l) : \A v \in Tokens :
             (/\ args0 = InsertPair(l, p, name, v)
              /\ Occ(l, name) = {}
              /\ v # name) =>
                raised = "" /\ result = v /\ args = l

C3_Witness ==
    /\ call = "extract_arg" /\ raised = ""
    /\ \E l \in SeqsUpTo(Tokens, MaxArgs - 2) :
          /\ Len(l) = 2 /\ Occ(l, name) = {}
          /\ \E v \in Tokens \ {name} :
                args0 = InsertPair(l, 1, name, v) /\ result = v /\ args = l

\* C4: no partial success.  extract_flag raises exactly when name occurs
\* more than once; extract_arg raises exactly when name occurs more than
\* once, or is absent and required, or its single occurrence is the last
\* element; whenever either raises the list is as it was before the call;
\* extract_arg with name absent and not required returns None, list
\* unchanged.
C4_NoPartialSuccess ==
    LET n == Cardinality(Occ(args0, name))
    IN  /\ call = "extract_flag" =>
              /\ raised # "" <=> n > 1
              /\ raised # "" => args = args0
        /\ call = "extract_arg" =>
              /\ raised # "" <=>
                    \/ n > 1
                    \/ n = 0 /\ required
                    \/ Occ(args0, name) = {Len(args0)}
              /\ raised # "" => args = args0
              /\ (n = 0 /\ ~required) =>
                    raised = "" /\ result = PyNone /\ args = args0

C4_Witness ==
    /\ call = "extract_arg" /\ raised = "CleanError"
    /\ Len(args0) = 3 /\ Occ(args0, name) = {3}
    /\ args = args0

\* C10: after a call of extract_flag or extract_arg that returns without
\* raising, name no longer occurs in the list; a call that immediately
\* follows it with the same name finds nothing: extract_flag returns false
\* and extract_arg (not required) returns None, the list unchanged.
C10_ConsumedOnce ==
    /\ (Extracted /\ raised = "") => Occ(args, name) = {}
    /\ (prev.call # "none" /\ prev.raised = "" /\ prev.name = name) =>
          /\ call = "extract_flag" =>
                raised = "" /\ result = PyFalse /\ args = args0
          /\ (call = "extract_arg" /\ ~required) =>
                raised = "" /\ result = PyNone /\ args = args0

C10_Witness ==
    /\ prev.call = "extract_flag" /\ prev.raised = "" /\ prev.name = name
    /\ call = "extract_flag" /\ result = PyFalse
    /\ Len(args0) = MaxArgs - 1 /\ args = args0

\* 0-based positions at which sub occurs in s (overlapping ones included).
Positions(s, sub) == {i \in 0..Len(s) : StartsAt(s, sub, i)}

\* The part of s that follows the occurrence of sub at 0-based position i.
After(s, sub, i) == SubSeq(s, i + Len(sub) + 1, Len(s))

Sectioned == call = "replace_section"

\* C5 as stated: for text = before + begin_marker + middle + end_marker +
\* after with begin_marker occurring exactly once in the text and
\* end_marker exactly once after it, replace_section returns
\* before + replace_text + after (markers kept around replace_text when
\* keep_markers), and middle never appears in the result.
C5_SectionReplacedMiddleGone ==
    Sectioned =>
       \A i \in 0..Len(text) :
          Positions(text, begin_marker) = {i} =>
             LET before == SubSeq(text, 1, i)
                 rest == After(text, begin_marker, i)
             IN  \A j \in 0..Len(rest) :
                    Positions(rest, end_marker) = {j} =>
                       LET middle == SubSeq(rest, 1, j)
                           after == After(rest, end_marker, j)
                       IN  /\ raised = ""
                           /\ ret = IF keep_markers
                                    THEN before \o begin_marker
                                         \o replace_text \o end_marker
                                         \o after
                                    ELSE before \o replace_text \o after
                           /\ ~Contains(ret, middle)

\* C5 amended: the same for non-empty markers, without the statement that
\* middle is not a substring of the result: the result is exactly
\* before + replace_text + after (markers kept around replace_text when
\* keep_markers), whatever middle is.
C5_SectionReplaced ==
    (Sectioned /\ begin_marker # <<>> /\ end_marker # <<>>) =>
       \A i \in 0..Len(text) :
          Positions(text, begin_marker) = {i} =>
             LET before == SubSeq(text, 1, i)
                 rest == After(text, begin_marker, i)
             IN  \A j \in 0..Len(rest) :
                    Positions(rest, end_marker) = {j} =>
                       LET after == After(rest, end_marker, j)
                       IN  /\ raised = ""
                           /\ ret = IF keep_markers
                                    THEN before \o begin_marker
                                         \o replace_text \o end_marker
                                         \o after
                                    ELSE before \o replace_text \o after

C5_Witness ==
    /\ Sectioned /\ raised = "" /\ ~keep_markers
    /\ Len(begin_marker) = 1 /\ Len(end_marker) = 1
    /\ Len(text) = 4 /\ Len(replace_text) = 1
    /\ Positions(text, begin_marker) = {1}
    /\ Positions(After(text, begin_marker, 1), end_marker) = {1}
    /\ ret = <<text[1]>> \o replace_text

\* C6 as stated: when begin_marker occurs in text, replace_section returns
\* a result only if the number of positions at which begin_marker occurs
\* in the text is exactly one and the number of positions at which
\* end_marker occurs in the text following it is exactly one.
C6_FailsUnlessOnePosition ==
    (Sectioned /\ Positions(text, begin_marker) # {} /\ raised = "") =>
       /\ Cardinality(Positions(text, begin_marker)) = 1
       /\ \A i \in Positions(text, begin_marker) :
             Cardinality(Positions(After(text, begin_marker, i),
                                   end_marker)) = 1

\* C6 amended: occurrences are counted the way str.split / str.count do,
\* left to right and non overlapping: replace_section returns a result
\* only if begin_marker is counted exactly once in the text and end_marker
\* exactly once in the text following the first begin_marker.
C6_FailsUnlessOneOccurrence ==
    (Sectioned /\ Positions(text, begin_marker) # {} /\ raised = "") =>
       /\ Count(text, begin_marker) = 1
       /\ \A i \in Positions(text, begin_marker) :
             (\A k \in Positions(text, begin_marker) : i <= k) =>
                Count(After(text, begin_marker, i), end_marker) = 1

C6_Witness ==
    /\ Sectioned /\ raised = "RuntimeError"
    /\ Positions(text, begin_marker) = {0}
    /\ Len(begin_marker) = 1
    /\ Count(After(text, begin_marker, 0), end_marker) = 2
    /\ Positions(SubSeq(text, 1, 1), end_marker) = {}

\* C7: when begin_marker does not occur in text, replace_section fails if
\* error_if_missing and otherwise returns text unchanged, whatever
\* end_marker, replace_text and keep_markers are.
C7_MissingBegin ==
    (Sectioned /\ Positions(text, begin_marker) = {}) =>
       IF error_if_missing
       THEN raised = "RuntimeError"
       ELSE raised = "" /\ ret = text

C7_Witness ==
    /\ Sectioned /\ ~error_if_missing /\ keep_markers
    /\ Positions(text, begin_marker) = {}
    /\ Positions(text, end_marker) # {} /\ end_marker # <<>>
    /\ replace_text # <<>>
    /\ raised = "" /\ ret = text /\ Len(text) = MaxText

\* The occurrences of sub in s that a left to right, non overlapping scan
\* picks: a position is picked iff sub occurs there and no picked
\* occurrence to its left reaches over it.
Picked(s, sub) ==
    CHOOSE P \in SUBSET Positions(s, sub) :
       \A i \in Positions(s, sub) :
          i \in P <=> ~\E q \in P : q < i /\ i < q + Len(sub)

\* s read from 0-based position k on, with new written in place of each
\* occurrence of sub that starts at a position of P, every other
\* character copied.
RECURSIVE Rewritten(_, _, _, _, _)
Rewritten(s, sub, new_, P, k) ==
    LET copy == IF k < Len(s)
                THEN <<s[k + 1]>> \o Rewritten(s, sub, new_, P, k + 1)
                ELSE <<>>
    IN  IF k \in P
        THEN new_ \o (IF sub = <<>> THEN copy
                      ELSE Rewritten(s, sub, new_, P, k + Len(sub)))
        ELSE copy

Exacted == call = "replace_exact"

\* C8: replace_exact fails iff the number of non overlapping, left to
\* right occurrences of old in the text differs from count; when it
\* succeeds the result is the text with every one of those occurrences
\* replaced by new and every other character unchanged.
C8_ReplaceExact ==
    Exacted =>
       LET P == Picked(opstr, old)
       IN  /\ raised # "" <=> Cardinality(P) # count
           /\ raised = "" =>
                 /\ ret = Rewritten(opstr, old, new, P, 0)
                 /\ Len(ret) = Len(opstr) + count * (Len(new) - Len(old))

C8_Witness ==
    /\ Exacted /\ raised = "" /\ count = 2
    /\ Len(old) = 1 /\ Len(new) = 1 /\ old # new
    /\ Len(opstr) = 3 /\ opstr[1] = old[1] /\ opstr[3] = old[1]
    /\ ret = <<new[1], opstr[2], new[1]>>

\* C9 as stated: replace_exact("aaa", "a", "b", count=3) raises.
C9_TripleRaises ==
    (/\ Exacted /\ opstr = <<"a", "a", "a">> /\ old = <<"a">>
     /\ new = <<"b">> /\ count = 3) => raised # ""

\* C9 amended: replace_exact("aaa", "a", "b", count=3) finds the three
\* occurrences it expects and returns "bbb"; the same call with the
\* default count=1 raises.
C9_TripleReplaced ==
    (/\ Exacted /\ opstr = <<"a", "a", "a">> /\ old = <<"a">>
     /\ new = <<"b">>) =>
        /\ count = 3 => raised = "" /\ ret = <<"b", "b", "b">>
        /\ count = 1 => raised = "RuntimeError"

C9_Witness ==
    /\ Exacted /\ opstr = <<"a", "a", "a">> /\ old = <<"a">>
    /\ new = <<"b">> /\ count = 3
    /\ raised = "" /\ ret = <<"b", "b", "b">>

====
